---- MODULE Spec2Model ----
(***************************************************************************)
(* A model of the Huntress MCP server (src/src/index.ts): the credential   *)
(* configuration, the lazy initialization, the rate gate, the tool         *)
(* dispatcher in its stdio and HTTP forms, and tool discovery.             *)
(*                                                                         *)
(* JavaScript values are modelled as follows.  An optional value is a      *)
(* sequence of length 0 (undefined) or 1 (the value).  An endpoint built   *)
(* by a template string `/agents/${id}` is the tuple <<"/agents", id>>.    *)
(* A handler that awaits is split at its suspension points (the timer of   *)
(* the rate gate, the upstream GET, the HTTP body's end event); what runs  *)
(* between two suspension points is one action.                            *)
(***************************************************************************)
EXTENDS Integers, Sequences, FiniteSets, TLC

\* ------------------------------------------------------------------ bounds
\* The clock value at process start (Date.now() is far beyond one window).
ClockStart == 100000
\* How far (in ms) the clock runs past ClockStart: two windows.
MaxElapsed == 120000
\* How many client requests a behaviour of Spec holds.
MaxCalls == 2
\* How many client requests a behaviour of SpecRate holds.
MaxRateCalls == 62
\* How many client requests a behaviour of SpecConc holds: a full window, two
\* callers that wait, and the rest of the next window.
MaxConcCalls == 121
\* How many client requests a behaviour of SpecCred holds.
MaxCredCalls == 3
\* How many client requests a behaviour of SpecLive holds: a full window and
\* two more.
MaxLiveCalls == 62
\* How far (in ms) the clock runs past ClockStart in SpecConc: one window.
ConcElapsed == 60000

\* ------------------------------------------------------- program constants
\* The window length in ms and the ceiling of checkRateLimit.
Window == 60000
MaxRequests == 60
\* The paging defaults and the clamp of the list_* tools.
DefaultPage == 1
DefaultLimit == 50
LimitCap == 500

\* ------------------------------------------------------------------ values
Undefined == << >>
Some(v) == << v >>

\* JavaScript truthiness of an optional string / an optional number.
TruthyStr(m) == m # Undefined /\ m[1] # ""
TruthyNum(m) == m # Undefined /\ m[1] # 0

Min(a, b) == IF a <= b THEN a ELSE b

\* ------------------------------------------------------------------- state
VARIABLES
  mode,            \* "stdio" or "http": the transport run() selected
  env,             \* process.env: [key, secret], each optional
  config,          \* this.config
  isInitialized,   \* this.isInitialized
  axiosInstance,   \* this.axiosInstance: Undefined or Some([key, secret])
  lastRequestTime, \* this.lastRequestTime
  requestCount,    \* this.requestCount
  now,             \* Date.now()
  calls,           \* how many client requests were received
  call,            \* per caller: the request in flight and its outcome
  arrivals,        \* the times at which requests entered checkRateLimit
  admits           \* the times at which checkRateLimit admitted a request

vars == << mode, env, config, isInitialized, axiosInstance, lastRequestTime,
           requestCount, now, calls, call, arrivals, admits >>


\* --------------------------------------------------------- configuration
NoConfig == [huntressApiKey |-> Undefined, huntressApiSecret |-> Undefined]

\* parseConfig taking the query's credentials only as a pair: when either is
\* missing both come from the environment.
parseConfigPairwise(queryParams, e) ==
  IF TruthyStr(queryParams.huntressApiKey) /\ TruthyStr(queryParams.huntressApiSecret)
  THEN [huntressApiKey |-> queryParams.huntressApiKey,
        huntressApiSecret |-> queryParams.huntressApiSecret]
  ELSE [huntressApiKey |-> e.HUNTRESS_API_KEY,
        huntressApiSecret |-> e.HUNTRESS_API_SECRET]

\* parseConfig: the query parameter when it is truthy, else the environment.
parseConfig(queryParams, e) ==
  [huntressApiKey |->
     IF TruthyStr(queryParams.huntressApiKey) THEN queryParams.huntressApiKey
     ELSE e.HUNTRESS_API_KEY,
   huntressApiSecret |->
     IF TruthyStr(queryParams.huntressApiSecret) THEN queryParams.huntressApiSecret
     ELSE e.HUNTRESS_API_SECRET]

hasCredentials(cfg) ==
  TruthyStr(cfg.huntressApiKey) /\ TruthyStr(cfg.huntressApiSecret)

\* The Authorization header axios.create() fixes: Basic base64(key:secret).
BasicAuth(cfg) == << "Basic", cfg.huntressApiKey[1], ":", cfg.huntressApiSecret[1] >>

\* --------------------------------------------------------------- catalogue
PageSchema == [type |-> "integer", minimum |-> Some(1), maximum |-> Undefined]
LimitSchema == [type |-> "integer", minimum |-> Some(1), maximum |-> Some(500)]
IdSchema == [type |-> "integer", minimum |-> Undefined, maximum |-> Undefined]
StatusEnum == {"active", "resolved", "ignored"}
StatusSchema == [type |-> "string", enum |-> StatusEnum]

Tool(n, props, req) == [name |-> n, properties |-> props, required |-> req]

\* The ListTools handler's list (stdio).
ListToolsResult ==
  << Tool("get_account_info", << >>, {}),
     Tool("list_organizations", << <<"page", PageSchema>>, <<"limit", LimitSchema>> >>, {}),
     Tool("get_organization", << <<"organization_id", IdSchema>> >>, {"organization_id"}),
     Tool("list_agents", << <<"page", PageSchema>>, <<"limit", LimitSchema>> >>, {}),
     Tool("get_agent", << <<"agent_id", IdSchema>> >>, {"agent_id"}),
     Tool("list_incidents",
          << <<"page", PageSchema>>, <<"limit", LimitSchema>>, <<"status", StatusSchema>> >>, {}),
     Tool("get_incident", << <<"incident_id", IdSchema>> >>, {"incident_id"}) >>

\* The list GET /mcp answers with.
McpGetResult ==
  << Tool("get_account_info", << >>, {}),
     Tool("list_organizations", << <<"page", PageSchema>>, <<"limit", LimitSchema>> >>, {}),
     Tool("get_organization", << <<"organization_id", IdSchema>> >>, {"organization_id"}),
     Tool("list_agents", << <<"page", PageSchema>>, <<"limit", LimitSchema>> >>, {}),
     Tool("get_agent", << <<"agent_id", IdSchema>> >>, {"agent_id"}),
     Tool("list_incidents",
          << <<"page", PageSchema>>, <<"limit", LimitSchema>>, <<"status", StatusSchema>> >>, {}),
     Tool("get_incident", << <<"incident_id", IdSchema>> >>, {"incident_id"}) >>

\* The list POST /mcp answers tools/list with.
ToolsListResult ==
  << Tool("get_account_info", << >>, {}),
     Tool("list_organizations", << <<"page", PageSchema>>, <<"limit", LimitSchema>> >>, {}),
     Tool("get_organization", << <<"organization_id", IdSchema>> >>, {"organization_id"}),
     Tool("list_agents", << <<"page", PageSchema>>, <<"limit", LimitSchema>> >>, {}),
     Tool("get_agent", << <<"agent_id", IdSchema>> >>, {"agent_id"}),
     Tool("list_incidents",
          << <<"page", PageSchema>>, <<"limit", LimitSchema>>, <<"status", StatusSchema>> >>, {}),
     Tool("get_incident", << <<"incident_id", IdSchema>> >>, {"incident_id"}) >>

ToolNames ==
  {"get_account_info", "list_organizations", "get_organization", "list_agents",
   "get_agent", "list_incidents", "get_incident"}

\* -------------------------------------------------------------- dispatcher
NoArgs == [page |-> Undefined, limit |-> Undefined, status |-> Undefined,
           organization_id |-> Undefined, agent_id |-> Undefined,
           incident_id |-> Undefined]
NoParams == [page |-> Undefined, limit |-> Undefined, status |-> Undefined]

\* args?.page || 1
PageParam(args) == IF TruthyNum(args.page) THEN args.page[1] ELSE DefaultPage
\* The limit without its clamp.
LimitParamNoClamp(args) ==
  IF TruthyNum(args.limit) THEN args.limit[1] ELSE DefaultLimit
\* Math.min(args?.limit || 50, 500)
LimitParam(args) ==
  Min(IF TruthyNum(args.limit) THEN args.limit[1] ELSE DefaultLimit, LimitCap)
\* if (status) params.status = status
StatusParam(args) == IF TruthyStr(args.status) THEN args.status ELSE Undefined
\* The identifier never checked.
IdNeverMissing(id) == FALSE
\* if (!id) throw
IdMissing(id) == ~TruthyNum(id)
\* `${id}` in a template string
Render(id) == IF id = Undefined THEN "undefined" ELSE id[1]

Paging(args) ==
  [page |-> Some(PageParam(args)), limit |-> Some(LimitParam(args)), status |-> Undefined]

Get(endpoint, params) ==
  [err |-> "none", code |-> "none", msg |-> << >>, endpoint |-> endpoint, params |-> params]
Throw(err, code, msg) ==
  [err |-> err, code |-> code, msg |-> msg, endpoint |-> << >>, params |-> NoParams]

\* A switch whose default falls through to the account request.
UnknownToolAsAccount(name, code) == Get(<<"/account">>, NoParams)
\* The default case of both switches.
UnknownTool(name, code) == Throw("UnknownTool", code, <<"Unknown tool: ", name>>)

\* The switch of the CallTool handler (stdio): the GET a call asks for, or the
\* McpError it throws before any request.
CallToolSwitch(name, args) ==
  CASE name = "get_account_info" -> Get(<<"/account">>, NoParams)
    [] name = "list_organizations" -> Get(<<"/organizations">>, Paging(args))
    [] name = "get_organization" ->
         IF IdMissing(args.organization_id)
         THEN Throw("MissingParameter", "InvalidParams", <<"organization_id is required">>)
         ELSE Get(<<"/organizations", Render(args.organization_id)>>, NoParams)
    [] name = "list_agents" -> Get(<<"/agents">>, Paging(args))
    [] name = "get_agent" ->
         IF IdMissing(args.agent_id)
         THEN Throw("MissingParameter", "InvalidParams", <<"agent_id is required">>)
         ELSE Get(<<"/agents", Render(args.agent_id)>>, NoParams)
    [] name = "list_incidents" ->
         Get(<<"/incidents">>, [Paging(args) EXCEPT !.status = StatusParam(args)])
    [] name = "get_incident" ->
         IF IdMissing(args.incident_id)
         THEN Throw("MissingParameter", "InvalidParams", <<"incident_id is required">>)
         ELSE Get(<<"/incidents", Render(args.incident_id)>>, NoParams)
    [] OTHER -> UnknownTool(name, "MethodNotFound")

\* The switch of the HTTP tools/call handler: as above, each failure a plain
\* Error that the handler's catch reports with code -32603.
HttpToolSwitch(name, args) ==
  CASE name = "get_account_info" -> Get(<<"/account">>, NoParams)
    [] name = "list_organizations" -> Get(<<"/organizations">>, Paging(args))
    [] name = "get_organization" ->
         IF IdMissing(args.organization_id)
         THEN Throw("MissingParameter", "-32603", <<"organization_id is required">>)
         ELSE Get(<<"/organizations", Render(args.organization_id)>>, NoParams)
    [] name = "list_agents" -> Get(<<"/agents">>, Paging(args))
    [] name = "get_agent" ->
         IF IdMissing(args.agent_id)
         THEN Throw("MissingParameter", "-32603", <<"agent_id is required">>)
         ELSE Get(<<"/agents", Render(args.agent_id)>>, NoParams)
    [] name = "list_incidents" ->
         Get(<<"/incidents">>, [Paging(args) EXCEPT !.status = StatusParam(args)])
    [] name = "get_incident" ->
         IF IdMissing(args.incident_id)
         THEN Throw("MissingParameter", "-32603", <<"incident_id is required">>)
         ELSE Get(<<"/incidents", Render(args.incident_id)>>, NoParams)
    [] OTHER -> UnknownTool(name, "-32603")

\* JSON.stringify(data) of a flat object: no indentation, no space after the
\* colon.
CompactJson(data) ==
  << <<0, "{">> >>
  \o [i \in 1..Len(data) |->
        <<0, data[i][1], ":", data[i][2], IF i < Len(data) THEN "," ELSE "">>]
  \o << <<0, "}">> >>

\* JSON.stringify(data, null, 2) of a flat object, given as its <<key, value>>
\* pairs: one line per member, indented by two, a comma after all but the last.
PrettyJson(data) ==
  << <<0, "{">> >>
  \o [i \in 1..Len(data) |->
        <<2, data[i][1], ": ", data[i][2], IF i < Len(data) THEN "," ELSE "">>]
  \o << <<0, "}">> >>

\* The result every case of both switches returns:
\* { content: [{ type: 'text', text: JSON.stringify(data, null, 2) }] }
Content(data) == << [type |-> "text", text |-> PrettyJson(data)] >>


\* ---------------------------------------------------- initialize, the gate
\* initialize() that sets its flag before it looks for credentials, so that a
\* failure is remembered.
initializeLatching(init, axios, cfg) ==
  IF init
  THEN [throws |-> FALSE, isInitialized |-> init, axiosInstance |-> axios]
  ELSE IF ~hasCredentials(cfg)
  THEN [throws |-> TRUE, isInitialized |-> TRUE, axiosInstance |-> axios]
  ELSE [throws |-> FALSE, isInitialized |-> TRUE, axiosInstance |-> Some(BasicAuth(cfg))]

\* initialize(): a no-op once initialized; else it throws without credentials,
\* and with them creates the axios instance and sets the flag.
initialize(init, axios, cfg) ==
  IF init
  THEN [throws |-> FALSE, isInitialized |-> init, axiosInstance |-> axios]
  ELSE IF ~hasCredentials(cfg)
  THEN [throws |-> TRUE, isInitialized |-> init, axiosInstance |-> axios]
  ELSE [throws |-> FALSE, isInitialized |-> TRUE, axiosInstance |-> Some(BasicAuth(cfg))]

\* checkRateLimit without its ceiling: inside the window every call is counted
\* and admitted.
checkRateLimitNoCeiling(t, start, count) ==
  IF t - start >= Window
  THEN [suspend |-> FALSE, waitTime |-> 0, requestCount |-> 0 + 1, lastRequestTime |-> t]
  ELSE [suspend |-> FALSE, waitTime |-> 0, requestCount |-> count + 1,
        lastRequestTime |-> start]

\* checkRateLimit waiting for the time the window has run instead of the time
\* it has left.
checkRateLimitElapsedWait(t, start, count) ==
  IF t - start >= Window
  THEN [suspend |-> FALSE, waitTime |-> 0, requestCount |-> 0 + 1, lastRequestTime |-> t]
  ELSE IF count >= MaxRequests
  THEN [suspend |-> TRUE, waitTime |-> t - start,
        requestCount |-> count, lastRequestTime |-> start]
  ELSE [suspend |-> FALSE, waitTime |-> 0, requestCount |-> count + 1,
        lastRequestTime |-> start]

\* checkRateLimit with the ceiling reached one request early.
checkRateLimitEarly(t, start, count) ==
  IF t - start >= Window
  THEN [suspend |-> FALSE, waitTime |-> 0, requestCount |-> 0 + 1, lastRequestTime |-> t]
  ELSE IF count >= MaxRequests - 1
  THEN [suspend |-> TRUE, waitTime |-> Window - (t - start),
        requestCount |-> count, lastRequestTime |-> start]
  ELSE [suspend |-> FALSE, waitTime |-> 0, requestCount |-> count + 1,
        lastRequestTime |-> start]

\* checkRateLimit() up to its await: a new window when the old one is over,
\* a wait when the count is at the ceiling, and the increment otherwise.
checkRateLimit(t, start, count) ==
  IF t - start >= Window
  THEN [suspend |-> FALSE, waitTime |-> 0, requestCount |-> 0 + 1, lastRequestTime |-> t]
  ELSE IF count >= MaxRequests
  THEN [suspend |-> TRUE, waitTime |-> Window - (t - start),
        requestCount |-> count, lastRequestTime |-> start]
  ELSE [suspend |-> FALSE, waitTime |-> 0, requestCount |-> count + 1,
        lastRequestTime |-> start]

\* checkRateLimit after its await, the window start put back to its initial
\* value.
afterWaitZero(t) == [requestCount |-> 0 + 1, lastRequestTime |-> 0]

\* checkRateLimit after its await, the reset of the count left out.
afterWaitNoReset(t) == [requestCount |-> requestCount + 1, lastRequestTime |-> t]

\* checkRateLimit() after its await: the reset, the new window start, the
\* increment.
afterWait(t) == [requestCount |-> 0 + 1, lastRequestTime |-> t]

\* ----------------------------------------------------------------- callers
NoQuery == [huntressApiKey |-> Undefined, huntressApiSecret |-> Undefined]

\* No upstream failure: an axios error with no response body and no text.
NoFault == [body |-> Undefined, message |-> ""]

Idle ==
  [pc |-> "idle", kind |-> "none", name |-> "", args |-> NoArgs, query |-> NoQuery,
   hadCreds |-> FALSE, wasInit |-> FALSE, err |-> "none", code |-> "none",
   status |-> 0, msg |-> << >>, endpoint |-> << >>, params |-> NoParams,
   auth |-> Undefined, arrived |-> 0, deadline |-> 0, admitted |-> 0,
   used |-> FALSE, fault |-> NoFault, data |-> << >>, content |-> << >>, tools |-> << >>, trace |-> << >>]


\* A failure answered as an ordinary result whose text is the error message.
FailedAsResult(r, err, code, status, msg) ==
  [r EXCEPT !.pc = "done", !.err = err, !.status = status,
            !.content = << [type |-> "text", text |-> msg] >>,
            !.trace = Append(@, "result")]

\* A request that ends with an error response.
Failed(r, err, code, status, msg) ==
  [r EXCEPT !.pc = "done", !.err = err, !.code = code, !.status = status,
            !.msg = msg, !.trace = Append(@, "error")]

\* Discovery that asks for credentials first.
ListedIfConfigured(r, status, tools, cfg) ==
  IF hasCredentials(cfg)
  THEN [r EXCEPT !.pc = "done", !.status = status, !.tools = tools,
                 !.hadCreds = TRUE, !.wasInit = isInitialized,
                 !.used = requestCount > 0, !.trace = Append(@, "tools")]
  ELSE Failed([r EXCEPT !.wasInit = isInitialized], "AuthRequired", "InvalidRequest",
              status, <<"huntressApiKey and huntressApiSecret are required">>)

\* Discovery that lists the tools only once the server is initialized.
ListedOnceInitialized(r, status, tools, cfg) ==
  [r EXCEPT !.pc = "done", !.status = status,
            !.tools = IF isInitialized THEN tools ELSE << >>,
            !.hadCreds = hasCredentials(cfg), !.wasInit = isInitialized,
            !.used = requestCount > 0, !.trace = Append(@, "tools")]

\* A discovery request that ends with the tool list; the record keeps the
\* server state the request found: whether cfg holds credentials, whether the
\* server was initialized, whether the rate window was in use.
Listed(r, status, tools, cfg) ==
  [r EXCEPT !.pc = "done", !.status = status, !.tools = tools,
            !.hadCreds = hasCredentials(cfg), !.wasInit = isInitialized,
            !.used = requestCount > 0, !.trace = Append(@, "tools")]

\* ------------------------------------------------------------------ inputs
SeqCallers == {"c1"}
\* The clients that have requests in flight at the same time.
Callers == {"c1", "c2"}

Envs ==
  { [HUNTRESS_API_KEY |-> Undefined, HUNTRESS_API_SECRET |-> Undefined],
    [HUNTRESS_API_KEY |-> Some("ek"), HUNTRESS_API_SECRET |-> Some("es")],
    [HUNTRESS_API_KEY |-> Some("ek"), HUNTRESS_API_SECRET |-> Undefined] }

Queries ==
  { NoQuery,
    [huntressApiKey |-> Some("k1"), huntressApiSecret |-> Some("s1")],
    [huntressApiKey |-> Some("k2"), huntressApiSecret |-> Some("s2")],
    [huntressApiKey |-> Some(""), huntressApiSecret |-> Some("s1")],
    [huntressApiKey |-> Undefined, huntressApiSecret |-> Some("s1")] }

\* The <<method, path>> pairs clients send.
Targets ==
  { <<"OPTIONS", "/mcp">>, <<"GET", "/mcp">>, <<"POST", "/mcp">>, <<"DELETE", "/mcp">>,
    <<"PUT", "/mcp">>, <<"GET", "/health">>, <<"GET", "/">>, <<"POST", "/other">> }

CallNames == ToolNames \cup {"health_check"}

\* The (page, limit) pairs, the statuses and the identifiers callers send:
\* absent, zero, negative, in range and beyond the cap.
Pagings ==
  { <<Undefined, Undefined>>, <<Some(3), Some(20)>>, <<Some(0), Some(0)>>,
    <<Some(2), Some(1000)>>, <<Some(-1), Some(-5)>>, <<Undefined, Some(500)>> }
StatusVals == {Undefined, Some(""), Some("active"), Some("bogus")}
IdVals == {Undefined, Some(0), Some(42)}

ArgsFor(name) ==
  CASE name = "list_organizations" ->
         { [NoArgs EXCEPT !.page = pl[1], !.limit = pl[2]] : pl \in Pagings }
    [] name = "list_agents" ->
         { [NoArgs EXCEPT !.page = pl[1], !.limit = pl[2]] :
             pl \in { <<Undefined, Undefined>>, <<Some(0), Some(1000)>> } }
    [] name = "list_incidents" ->
         { [NoArgs EXCEPT !.status = st] : st \in StatusVals }
         \cup { [NoArgs EXCEPT !.page = Some(2), !.limit = Some(1000),
                               !.status = Some("resolved")] }
    [] name = "get_organization" -> { [NoArgs EXCEPT !.organization_id = id] : id \in IdVals }
    [] name = "get_agent" -> { [NoArgs EXCEPT !.agent_id = id] : id \in IdVals }
    [] name = "get_incident" -> { [NoArgs EXCEPT !.incident_id = id] : id \in IdVals }
    [] OTHER -> { NoArgs }

\* A POST body: one that JSON.parse rejects, or a JSON-RPC request.
Malformed == [json |-> FALSE, method |-> "", params |-> Undefined]
Rpc(method, params) == [json |-> TRUE, method |-> method, params |-> params]
Bodies ==
  { Malformed, Rpc("tools/list", Undefined), Rpc("resources/list", Undefined),
    Rpc("tools/call", Undefined) }
  \cup UNION { { Rpc("tools/call", Some([name |-> n, arguments |-> a])) :
                   a \in ArgsFor(n) } : n \in CallNames }

UpstreamData ==
  { << <<"id", 42>>, <<"status", "active">> >>,
    << <<"id", 7>>, <<"status", "resolved">> >> }

UpstreamErrors ==
  { [body |-> Some("Unauthorized"), message |-> "Request failed with status code 401"],
    [body |-> Some(""), message |-> "Request failed with status code 500"],
    [body |-> Undefined, message |-> "connect ECONNREFUSED"] }

\* The clock's steps: one window, and one ms less.
TickSteps == {Window - 1, Window}


\* ----------------------------------------------------------------- actions
Init ==
  /\ mode \in {"stdio", "http"}
  /\ env \in Envs
  /\ config = NoConfig
  /\ isInitialized = FALSE
  /\ axiosInstance = Undefined
  /\ lastRequestTime = 0
  /\ requestCount = 0
  /\ now = ClockStart
  /\ calls = 0
  /\ call = [c \in Callers |-> Idle]
  /\ arrivals = << >>
  /\ admits = << >>

\* Time passes.
Tick(d) ==
  /\ now + d <= ClockStart + MaxElapsed
  /\ now' = now + d
  /\ UNCHANGED << mode, env, config, isInitialized, axiosInstance, lastRequestTime,
                  requestCount, calls, call, arrivals, admits >>

\* The tool call proper, once initialize() has returned: the switch, then
\* makeRequest up to the point where it awaits (the gate's timer or the GET).
\* r is the caller's record, p what the switch decided, i what initialize()
\* left, status and code what this transport reports an internal error with.
\* A tool call that takes its rate slot before the switch rejects it.
ToolCallCountsFirst(c, r, p, i, status, code) ==
  LET g == checkRateLimit(now, lastRequestTime, requestCount) IN
  /\ isInitialized' = i.isInitialized
  /\ axiosInstance' = i.axiosInstance
  /\ IF g.suspend
     THEN /\ call' = [call EXCEPT ![c] =
                        [r EXCEPT !.pc = "wait", !.endpoint = p.endpoint,
                                  !.params = p.params, !.arrived = now,
                                  !.deadline = now + g.waitTime,
                                  !.trace = Append(@, "wait")]]
          /\ arrivals' = Append(arrivals, now)
          /\ UNCHANGED << requestCount, lastRequestTime, admits >>
     ELSE /\ requestCount' = g.requestCount
          /\ lastRequestTime' = g.lastRequestTime
          /\ arrivals' = Append(arrivals, now)
          /\ admits' = Append(admits, now)
          /\ call' = [call EXCEPT ![c] =
                        IF p.err # "none"
                        THEN Failed(r, p.err, p.code, status, p.msg)
                        ELSE [r EXCEPT !.pc = "get", !.endpoint = p.endpoint,
                                       !.params = p.params, !.arrived = now,
                                       !.admitted = now, !.auth = i.axiosInstance,
                                       !.trace = @ \o <<"admit", "get">>]]

\* A tool call after initialize(): the switch's rejection, or makeRequest up to
\* its first suspension.
ToolCall(c, r, p, i, status, code) ==
  LET g == checkRateLimit(now, lastRequestTime, requestCount) IN
  /\ isInitialized' = i.isInitialized
  /\ axiosInstance' = i.axiosInstance
  /\ IF p.err # "none"
     THEN /\ call' = [call EXCEPT ![c] = Failed(r, p.err, p.code, status, p.msg)]
          /\ UNCHANGED << requestCount, lastRequestTime, arrivals, admits >>
     ELSE IF i.axiosInstance = Undefined
     THEN /\ call' = [call EXCEPT ![c] =
                        Failed(r, "NotInitialized", code, status,
                               <<"Server not properly initialized">>)]
          /\ UNCHANGED << requestCount, lastRequestTime, arrivals, admits >>
     ELSE IF g.suspend
     THEN /\ call' = [call EXCEPT ![c] =
                        [r EXCEPT !.pc = "wait", !.endpoint = p.endpoint,
                                  !.params = p.params, !.arrived = now,
                                  !.deadline = now + g.waitTime,
                                  !.trace = Append(@, "wait")]]
          /\ arrivals' = Append(arrivals, now)
          /\ UNCHANGED << requestCount, lastRequestTime, admits >>
     ELSE /\ requestCount' = g.requestCount
          /\ lastRequestTime' = g.lastRequestTime
          /\ arrivals' = Append(arrivals, now)
          /\ admits' = Append(admits, now)
          /\ call' = [call EXCEPT ![c] =
                        [r EXCEPT !.pc = "get", !.endpoint = p.endpoint,
                                  !.params = p.params, !.arrived = now,
                                  !.admitted = now, !.auth = i.axiosInstance,
                                  !.trace = @ \o <<"admit", "get">>]]

\* stdio: the ListTools handler.
StdioListTools(c) ==
  /\ mode = "stdio"
  /\ call[c].pc \in {"idle", "done"}
  /\ calls' = calls + 1
  /\ call' = [call EXCEPT ![c] = Listed([Idle EXCEPT !.kind = "tools/list"], 0, ListToolsResult, config)]
  /\ UNCHANGED << mode, env, config, isInitialized, axiosInstance, lastRequestTime,
                  requestCount, now, arrivals, admits >>

\* stdio: the CallTool handler, up to its first suspension.
StdioCallTool(c, name, args) ==
  LET i == initialize(isInitialized, axiosInstance, config)
      r == [Idle EXCEPT !.kind = "tools/call", !.name = name, !.args = args,
                        !.hadCreds = hasCredentials(config),
                        !.wasInit = isInitialized]
  IN
  /\ mode = "stdio"
  /\ call[c].pc \in {"idle", "done"}
  /\ calls' = calls + 1
  /\ IF i.throws
     THEN /\ call' = [call EXCEPT ![c] =
                        Failed(r, "AuthRequired", "InvalidRequest", 0,
                               <<"huntressApiKey and huntressApiSecret are required">>)]
          /\ isInitialized' = i.isInitialized
          /\ axiosInstance' = i.axiosInstance
          /\ UNCHANGED << requestCount, lastRequestTime, arrivals, admits >>
     ELSE ToolCall(c, [r EXCEPT !.trace = <<"init">>], CallToolSwitch(name, args), i,
                   0, "InternalError")
  /\ UNCHANGED << mode, env, config, now >>

\* HTTP: handleHttpRequest up to its return: the configuration parse, and the
\* answer of every request but POST /mcp, whose body is still to come.
HttpRequest(c, method, path, query) ==
  LET cfg == parseConfig(query, env)
      r == [Idle EXCEPT !.kind = method, !.query = query]
  IN
  /\ mode = "http"
  /\ call[c].pc \in {"idle", "done"}
  /\ calls' = calls + 1
  /\ config' = IF method = "OPTIONS" THEN config ELSE cfg
  /\ call' = [call EXCEPT ![c] =
       CASE method = "OPTIONS" -> [r EXCEPT !.pc = "done", !.status = 200]
         [] method = "GET" /\ path = "/mcp" ->
              Listed([r EXCEPT !.kind = "GET /mcp"], 200, McpGetResult, cfg)
         [] method = "POST" /\ path = "/mcp" -> [r EXCEPT !.pc = "body"]
         [] method = "DELETE" /\ path = "/mcp" ->
              [r EXCEPT !.pc = "done", !.status = 200, !.kind = "cleanup"]
         [] method # "OPTIONS" /\ path \in {"/health", "/"} ->
              [r EXCEPT !.pc = "done", !.status = 200, !.kind = "health",
                        !.hadCreds = hasCredentials(cfg)]
         [] OTHER -> [r EXCEPT !.pc = "done", !.status = 404, !.kind = "notfound"]]
  /\ UNCHANGED << mode, env, isInitialized, axiosInstance, lastRequestTime,
                  requestCount, now, arrivals, admits >>

\* HTTP: the body's end handler of POST /mcp, up to its first suspension.
HttpBodyEnd(c, body) ==
  LET i == initialize(isInitialized, axiosInstance, config)
      r == [call[c] EXCEPT !.kind = IF body.json THEN body.method ELSE "malformed"]
      parseError(q, err) == Failed(q, err, "-32700", 400, <<"Parse error">>)
  IN
  /\ mode = "http"
  /\ call[c].pc = "body"
  /\ IF ~body.json
     THEN /\ call' = [call EXCEPT ![c] = parseError(r, "ParseError")]
          /\ UNCHANGED << isInitialized, axiosInstance, requestCount, lastRequestTime,
                          arrivals, admits >>
     ELSE IF body.method = "tools/list"
     THEN /\ call' = [call EXCEPT ![c] = Listed(r, 200, ToolsListResult, config)]
          /\ UNCHANGED << isInitialized, axiosInstance, requestCount, lastRequestTime,
                          arrivals, admits >>
     ELSE IF body.method # "tools/call"
     THEN /\ call' = [call EXCEPT ![c] =
                        Failed(r, "MethodNotFound", "-32601", 200, <<"Method not found">>)]
          /\ UNCHANGED << isInitialized, axiosInstance, requestCount, lastRequestTime,
                          arrivals, admits >>
     ELSE LET q == [r EXCEPT !.hadCreds = hasCredentials(config),
                             !.wasInit = isInitialized] IN
          IF i.throws
          THEN /\ call' = [call EXCEPT ![c] = parseError(q, "AuthRequired")]
               /\ isInitialized' = i.isInitialized
               /\ axiosInstance' = i.axiosInstance
               /\ UNCHANGED << requestCount, lastRequestTime, arrivals, admits >>
          ELSE IF body.params = Undefined
          THEN /\ call' = [call EXCEPT ![c] =
                             parseError([q EXCEPT !.trace = <<"init">>], "TypeError")]
               /\ isInitialized' = i.isInitialized
               /\ axiosInstance' = i.axiosInstance
               /\ UNCHANGED << requestCount, lastRequestTime, arrivals, admits >>
          ELSE ToolCall(c, [q EXCEPT !.name = body.params[1].name,
                                        !.args = body.params[1].arguments,
                                        !.trace = <<"init">>],
                        HttpToolSwitch(body.params[1].name, body.params[1].arguments),
                        i, 200, "-32603")
  /\ UNCHANGED << mode, env, config, now, calls >>

\* The clock reaches the time a waiting caller's timer is set for.
TimerDue(c) ==
  /\ call[c].pc = "wait"
  /\ now < call[c].deadline
  /\ now' = call[c].deadline
  /\ UNCHANGED << mode, env, config, isInitialized, axiosInstance, lastRequestTime,
                  requestCount, calls, call, arrivals, admits >>

\* The gate's timer fires and the caller is put to wait for another window.
WakeWaitsOn(c) ==
  /\ call[c].pc = "wait"
  /\ now >= call[c].deadline
  /\ call' = [call EXCEPT ![c] =
                [@ EXCEPT !.deadline = now + Window, !.trace = Append(@, "wait")]]
  /\ UNCHANGED << mode, env, config, isInitialized, axiosInstance, lastRequestTime,
                  requestCount, now, calls, arrivals, admits >>

\* The gate's timer fires and the GET goes out before the gate's bookkeeping.
WakeGetBeforeAdmit(c) ==
  LET g == afterWait(now) IN
  /\ call[c].pc = "wait"
  /\ now >= call[c].deadline
  /\ requestCount' = g.requestCount
  /\ lastRequestTime' = g.lastRequestTime
  /\ admits' = Append(admits, now)
  /\ call' = [call EXCEPT ![c] =
                [@ EXCEPT !.pc = "get", !.admitted = now, !.auth = axiosInstance,
                          !.trace = @ \o <<"get", "admit">>]]
  /\ UNCHANGED << mode, env, config, isInitialized, axiosInstance, now,
                  calls, arrivals >>

\* The gate's timer fires and the gate is consulted again: the caller is
\* admitted only if the window has room, and waits on otherwise.
WakeRechecks(c) ==
  LET g == checkRateLimit(now, lastRequestTime, requestCount) IN
  /\ call[c].pc = "wait"
  /\ now >= call[c].deadline
  /\ IF g.suspend
     THEN /\ call' = [call EXCEPT ![c] = [@ EXCEPT !.deadline = now + g.waitTime]]
          /\ UNCHANGED << requestCount, lastRequestTime, admits >>
     ELSE /\ requestCount' = g.requestCount
          /\ lastRequestTime' = g.lastRequestTime
          /\ admits' = Append(admits, now)
          /\ call' = [call EXCEPT ![c] =
                        [@ EXCEPT !.pc = "get", !.admitted = now, !.auth = axiosInstance,
                                  !.trace = @ \o <<"admit", "get">>]]
  /\ UNCHANGED << mode, env, config, isInitialized, axiosInstance, now,
                  calls, arrivals >>

\* The gate's timer fires: the rest of checkRateLimit, then the GET.
Wake(c) ==
  LET g == afterWait(now) IN
  /\ call[c].pc = "wait"
  /\ now >= call[c].deadline
  /\ requestCount' = g.requestCount
  /\ lastRequestTime' = g.lastRequestTime
  /\ admits' = Append(admits, now)
  /\ call' = [call EXCEPT ![c] =
                [@ EXCEPT !.pc = "get", !.admitted = now, !.auth = axiosInstance,
                          !.trace = @ \o <<"admit", "get">>]]
  /\ UNCHANGED << mode, env, config, isInitialized, axiosInstance, now,
                  calls, arrivals >>

\* The upstream answers the GET with a 2xx response.
UpstreamOk(c, data) ==
  /\ call[c].pc = "get"
  /\ call' = [call EXCEPT ![c] =
                [@ EXCEPT !.pc = "done", !.status = IF mode = "http" THEN 200 ELSE 0,
                          !.data = data, !.content = Content(data),
                          !.trace = Append(@, "result")]]
  /\ UNCHANGED << mode, env, config, isInitialized, axiosInstance, lastRequestTime,
                  requestCount, now, calls, arrivals, admits >>

\* The detail that is always the transport's text.
ErrorDetailTransport(e) == e.message
\* error.response?.data?.message || error.message, where e.body is the message
\* member of the response body and e.message the axios error's own text.
ErrorDetail(e) == IF TruthyStr(e.body) THEN e.body[1] ELSE e.message

\* The GET fails and is sent a second time before the call gives up.
UpstreamFailRetry(c, e) ==
  /\ call[c].pc = "get"
  /\ call' = [call EXCEPT ![c] =
                IF \E k \in 1..Len(call[c].trace) : call[c].trace[k] = "retry"
                THEN [@ EXCEPT !.pc = "done", !.err = "UpstreamError",
                               !.code = IF mode = "http" THEN "-32603" ELSE "InternalError",
                               !.status = IF mode = "http" THEN 200 ELSE 0,
                               !.fault = e,
                               !.msg = <<"Huntress API error: ", ErrorDetail(e)>>,
                               !.trace = Append(@, "error")]
                ELSE [@ EXCEPT !.trace = @ \o <<"retry", "get">>]]
  /\ UNCHANGED << mode, env, config, isInitialized, axiosInstance, lastRequestTime,
                  requestCount, now, calls, arrivals, admits >>

\* The GET fails and its rate slot is given back.
UpstreamFailReturnsSlot(c, e) ==
  /\ call[c].pc = "get"
  /\ call' = [call EXCEPT ![c] =
                [@ EXCEPT !.pc = "done", !.err = "UpstreamError",
                          !.code = IF mode = "http" THEN "-32603" ELSE "InternalError",
                          !.status = IF mode = "http" THEN 200 ELSE 0,
                          !.fault = e,
                          !.msg = <<"Huntress API error: ", ErrorDetail(e)>>,
                          !.trace = Append(@, "error")]]
  /\ requestCount' = IF requestCount > 0 THEN requestCount - 1 ELSE 0
  /\ UNCHANGED << mode, env, config, isInitialized, axiosInstance, lastRequestTime,
                  now, calls, arrivals, admits >>

\* The GET fails: makeRequest's catch, then the handler's.
UpstreamFail(c, e) ==
  /\ call[c].pc = "get"
  /\ call' = [call EXCEPT ![c] =
                Failed([@ EXCEPT !.fault = e], "UpstreamError",
                       IF mode = "http" THEN "-32603" ELSE "InternalError",
                       IF mode = "http" THEN 200 ELSE 0,
                       <<"Huntress API error: ", ErrorDetail(e)>>)]
  /\ UNCHANGED << mode, env, config, isInitialized, axiosInstance, lastRequestTime,
                  requestCount, now, calls, arrivals, admits >>

Next ==
  \/ \E d \in TickSteps : Tick(d)
  \/ \E c \in SeqCallers : calls < MaxCalls /\ StdioListTools(c)
  \/ \E c \in SeqCallers, n \in CallNames :
       \E a \in ArgsFor(n) : calls < MaxCalls /\ StdioCallTool(c, n, a)
  \/ \E c \in SeqCallers, t \in Targets, q \in Queries :
       calls < MaxCalls /\ HttpRequest(c, t[1], t[2], q)
  \/ \E c \in SeqCallers, b \in Bodies : HttpBodyEnd(c, b)
  \/ \E c \in SeqCallers, d \in UpstreamData : UpstreamOk(c, d)
  \/ \E c \in SeqCallers, e \in UpstreamErrors : UpstreamFail(c, e)

Spec == Init /\ [][Next]_vars


\* The rate gate at work: an HTTP server, one client that sends one tools/call
\* after the other with its credentials in the query, an upstream that answers.
RateQuery == [huntressApiKey |-> Some("k1"), huntressApiSecret |-> Some("s1")]
RateBody == Rpc("tools/call", Some([name |-> "get_account_info", arguments |-> NoArgs]))
RateData == << <<"id", 42>>, <<"status", "active">> >>
RateFault == [body |-> Some("Unauthorized"), message |-> "Request failed with status code 401"]

InitRate == Init /\ mode = "http" /\ env = [HUNTRESS_API_KEY |-> Undefined,
                                            HUNTRESS_API_SECRET |-> Undefined]

NextRate ==
  \/ \E d \in TickSteps : Tick(d)
  \/ \E c \in SeqCallers : calls < MaxRateCalls /\ HttpRequest(c, "POST", "/mcp", RateQuery)
  \/ \E c \in SeqCallers : HttpBodyEnd(c, RateBody)
  \/ \E c \in SeqCallers : Wake(c)
  \/ \E c \in SeqCallers : UpstreamOk(c, RateData)

SpecRate == InitRate /\ [][NextRate]_vars


\* Every call comes to an end: two clients, a clock that reaches every timer a
\* caller waits for, timers that fire and an upstream that answers or fails.
NextLive ==
  \/ \E c \in Callers : calls < MaxLiveCalls /\ HttpRequest(c, "POST", "/mcp", RateQuery)
  \/ \E c \in Callers : HttpBodyEnd(c, RateBody)
  \/ \E c \in Callers : TimerDue(c)
  \/ \E c \in Callers : Wake(c)
  \/ \E c \in Callers : UpstreamOk(c, RateData)
  \/ \E c \in Callers : UpstreamFail(c, RateFault)

SpecLive ==
  /\ InitRate
  /\ [][NextLive]_vars
  /\ \A c \in Callers :
       /\ WF_vars(TimerDue(c))
       /\ WF_vars(Wake(c))
       /\ WF_vars(UpstreamOk(c, RateData) \/ UpstreamFail(c, RateFault))


\* Credentials at work: two clients whose requests carry every kind of query
\* and overlap, on a server started in either mode with every kind of
\* environment.
CredEnvs ==
  Envs \cup { [HUNTRESS_API_KEY |-> Some(""), HUNTRESS_API_SECRET |-> Some("es")] }

InitCred ==
  /\ mode \in {"stdio", "http"}
  /\ env \in CredEnvs
  /\ config = NoConfig
  /\ isInitialized = FALSE
  /\ axiosInstance = Undefined
  /\ lastRequestTime = 0
  /\ requestCount = 0
  /\ now = ClockStart
  /\ calls = 0
  /\ call = [c \in Callers |-> Idle]
  /\ arrivals = << >>
  /\ admits = << >>

NextCred ==
  \/ \E c \in Callers, q \in Queries :
       calls < MaxCredCalls /\ HttpRequest(c, "POST", "/mcp", q)
  \/ \E c \in Callers : HttpBodyEnd(c, RateBody)
  \/ \E c \in Callers :
       calls < MaxCredCalls /\ StdioCallTool(c, "get_account_info", NoArgs)
  \/ \E c \in Callers : UpstreamOk(c, RateData)

SpecCred == InitCred /\ [][NextCred]_vars


\* The rate gate under concurrent callers: as above with two clients whose
\* requests interleave at the handlers' suspension points, and a clock that
\* moves a window at a time.
ConcTicks == {Window}

NextConc ==
  \/ \E d \in ConcTicks : now + d <= ClockStart + ConcElapsed /\ Tick(d)
  \/ \E c \in Callers : calls < MaxConcCalls /\ HttpRequest(c, "POST", "/mcp", RateQuery)
  \/ \E c \in Callers : HttpBodyEnd(c, RateBody)
  \/ \E c \in Callers : Wake(c)
  \/ \E c \in Callers : UpstreamOk(c, RateData)
  \/ \E c \in Callers : UpstreamFail(c, RateFault)

SpecConc == InitRate /\ [][NextConc]_vars


\* ------------------------------------------------------------------ claims
Has(seq, x) == \E k \in 1..Len(seq) : seq[k] = x
Waited(r) == Has(r.trace, "wait")
ToolCalls == { c \in DOMAIN call : call[c].kind = "tools/call" }

\* C1: every interval of 60 seconds, wherever it starts, holds at most 60
\* admissions: of any 61 consecutive admissions the last is at least 60000 ms
\* after the first.
C1_SlidingWindow ==
  \A k \in 1..Len(admits) :
    k + MaxRequests <= Len(admits) => admits[k + MaxRequests] - admits[k] >= Window

\* C2: as long as no 60-second window holds more than 60 calls (of any 61
\* consecutive arrivals at the gate the last is at least 60000 ms after the
\* first), every call was admitted at the moment it arrived: none waits now and
\* none has waited.
AtMost60PerWindow ==
  \A k \in 1..Len(arrivals) :
    k + MaxRequests <= Len(arrivals) => arrivals[k + MaxRequests] - arrivals[k] >= Window
C2_NoDelayWithinCeiling ==
  AtMost60PerWindow =>
    /\ Len(admits) = Len(arrivals)
    /\ \A k \in 1..Len(arrivals) : admits[k] = arrivals[k]
    /\ \A c \in DOMAIN call : call[c].pc # "wait"
\* 61 calls and more, spread so that no window holds more than 60, all admitted
\* on arrival.
C2_Witness ==
  /\ AtMost60PerWindow
  /\ Len(arrivals) > MaxRequests
  /\ admits = arrivals

\* C3: a call that finds 60 admissions in a window not yet over is suspended
\* (never admitted as the 61st of that window) for the window's remaining time,
\* 60000 - (now - windowStart); it is admitted when it wakes, not before that
\* time has passed, and then windowStart is the wake-up time and requestCount
\* is 1.
C3_SixtyFirstWaits ==
  \A c \in DOMAIN call :
    LET r == call[c] IN
    /\ r.pc = "wait" =>
         /\ requestCount >= MaxRequests
         /\ r.arrived - lastRequestTime < Window
         /\ r.deadline - r.arrived = Window - (r.arrived - lastRequestTime)
         /\ ~Has(r.trace, "admit")
    /\ r.pc = "get" /\ ~Waited(r) => requestCount <= MaxRequests
    /\ r.pc = "get" /\ Waited(r) =>
         /\ r.admitted >= r.deadline
         /\ lastRequestTime = r.admitted
         /\ requestCount = 1
\* A call that waited in the gate and has just been admitted.
C3_Witness ==
  \E c \in DOMAIN call : call[c].pc = "get" /\ Waited(call[c])


Discoveries ==
  { c \in DOMAIN call : call[c].kind \in {"tools/list", "GET /mcp"} /\ call[c].pc = "done" }
GetTools == {"get_organization", "get_agent", "get_incident"}
ListTools == {"list_organizations", "list_agents", "list_incidents"}
\* The identifier argument the tool of a call requires.
IdArg(r) ==
  CASE r.name = "get_organization" -> r.args.organization_id
    [] r.name = "get_agent" -> r.args.agent_id
    [] r.name = "get_incident" -> r.args.incident_id
    [] OTHER -> Undefined
\* Whether the call passed the gate, or sent its GET.
Touched(r) == Has(r.trace, "wait") \/ Has(r.trace, "admit") \/ Has(r.trace, "get")

\* C4: a tool call made while the configuration holds no key or no secret fails
\* with AuthRequired, and is neither admitted by the gate nor sent upstream.
C4_NoCredentialsNoCall ==
  \A c \in ToolCalls :
    ~call[c].hadCreds => call[c].err = "AuthRequired" /\ ~Touched(call[c])

\* C5: in stdio mode with HUNTRESS_API_KEY and HUNTRESS_API_SECRET both set, a
\* tool call passes initialize() and does not fail with AuthRequired.
C5_StdioEnvCredentials ==
  \A c \in ToolCalls :
    /\ mode = "stdio"
    /\ TruthyStr(env.HUNTRESS_API_KEY) /\ TruthyStr(env.HUNTRESS_API_SECRET)
    => call[c].err # "AuthRequired" /\ Has(call[c].trace, "init")

\* C6: discovery (ListTools, GET /mcp, POST tools/list) answered while no
\* credentials are configured succeeds with the 7 tools, without an
\* AuthRequired error, and leaves the server as initialized as it found it.
C6_DiscoveryWithoutCredentials ==
  \A c \in Discoveries :
    LET r == call[c] IN
    ~r.hadCreds =>
      /\ r.err = "none"
      /\ Len(r.tools) = 7
      /\ { r.tools[k].name : k \in 1..Len(r.tools) } = ToolNames
      /\ isInitialized = r.wasInit
      /\ ~r.wasInit => axiosInstance = Undefined
\* Discovery answered by a server that has no credentials and was never
\* initialized.
C6_Witness ==
  \E c \in Discoveries :
    ~call[c].hadCreds /\ ~call[c].wasInit /\ Len(call[c].tools) = 7

\* C7: every discovery answer is one and the same catalogue, whatever the
\* credentials, the initialization and the rate window it was answered in.
C7_SameCatalogue ==
  \A c \in Discoveries : call[c].tools = ListToolsResult
\* Discovery answered with credentials configured, the server initialized and
\* the rate window in use.
C7_Witness ==
  \E c \in Discoveries :
    call[c].hadCreds /\ call[c].wasInit /\ call[c].used /\ call[c].tools # << >>

\* C8 as stated: a get_* call without its identifier fails with
\* MissingParameter, untouched by the gate and never sent upstream.
C8_MissingIdentifier ==
  \A c \in ToolCalls :
    LET r == call[c] IN
    r.name \in GetTools /\ IdArg(r) = Undefined =>
      r.err = "MissingParameter" /\ ~Touched(r)
\* C8 as amended: a get_* call without its identifier that has passed
\* initialize() fails with MissingParameter, and one that has not fails with
\* AuthRequired; either way it is untouched by the gate and never sent upstream.
C8_MissingIdentifierAfterInit ==
  \A c \in ToolCalls :
    LET r == call[c] IN
    r.name \in GetTools /\ IdArg(r) = Undefined =>
      /\ r.pc = "done"
      /\ ~Touched(r)
      /\ r.endpoint = << >>
      /\ r.err = IF Has(r.trace, "init") THEN "MissingParameter" ELSE "AuthRequired"
\* A get_* call without its identifier, rejected after initialization.
C8_Witness ==
  \E c \in ToolCalls :
    /\ call[c].name \in GetTools /\ IdArg(call[c]) = Undefined
    /\ Has(call[c].trace, "init") /\ call[c].err = "MissingParameter"

\* C9 as stated: a list_* call is sent with page = the requested page, or 1
\* when none is given, and limit = min(requested limit, 500), or 50 when none
\* is given.
C9_PagingDefaults ==
  \A c \in ToolCalls :
    LET r == call[c] IN
    r.name \in ListTools /\ r.endpoint # << >> =>
      /\ r.params.page = Some(IF r.args.page = Undefined THEN 1 ELSE r.args.page[1])
      /\ r.params.limit =
           Some(IF r.args.limit = Undefined THEN 50 ELSE Min(r.args.limit[1], 500))
\* C9 as amended: page is the requested page, or 1 when none or 0 is given;
\* limit is min(requested limit, 500), or 50 when none or 0 is given.
C9_PagingDefaultsZero ==
  \A c \in ToolCalls :
    LET r == call[c] IN
    r.name \in ListTools /\ r.endpoint # << >> =>
      /\ r.params.page =
           Some(IF r.args.page \in {Undefined, Some(0)} THEN 1 ELSE r.args.page[1])
      /\ r.params.limit =
           Some(IF r.args.limit \in {Undefined, Some(0)} THEN 50
                ELSE Min(r.args.limit[1], 500))
\* list_organizations asked for 1000 results and sent upstream with limit 500.
C9_Witness ==
  \E c \in ToolCalls :
    /\ call[c].name = "list_organizations" /\ call[c].args.limit = Some(1000)
    /\ call[c].params.limit = Some(500) /\ Has(call[c].trace, "get")

\* C10: a call of one of the seven tools that has passed initialize() and
\* carries its required identifier goes to the tool's endpoint.
ToolEndpoint(r) ==
  CASE r.name = "get_account_info" -> <<"/account">>
    [] r.name = "list_organizations" -> <<"/organizations">>
    [] r.name = "get_organization" -> <<"/organizations", r.args.organization_id[1]>>
    [] r.name = "list_agents" -> <<"/agents">>
    [] r.name = "get_agent" -> <<"/agents", r.args.agent_id[1]>>
    [] r.name = "list_incidents" -> <<"/incidents">>
    [] r.name = "get_incident" -> <<"/incidents", r.args.incident_id[1]>>
C10_FixedEndpoints ==
  \A c \in ToolCalls :
    LET r == call[c] IN
    /\ Has(r.trace, "init") /\ r.name \in ToolNames
    /\ r.name \in GetTools => IdArg(r) # Undefined
    => /\ r.endpoint = ToolEndpoint(r)
       /\ r.pc # "wait" => Has(r.trace, "get")


\* The members read back from the lines of a pretty-printed flat object.
ParsePretty(lines) ==
  [i \in 1..(Len(lines) - 2) |-> << lines[i + 1][2], lines[i + 1][4] >>]
\* Whether lines are a flat object as JSON.stringify(_, null, 2) prints it.
IsPretty(lines) ==
  /\ Len(lines) >= 2
  /\ lines[1] = <<0, "{">> /\ lines[Len(lines)] = <<0, "}">>
  /\ \A i \in 2..(Len(lines) - 1) :
       /\ lines[i][1] = 2 /\ lines[i][3] = ": "
       /\ lines[i][5] = IF i < Len(lines) - 1 THEN "," ELSE ""
Succeeded(r) == r.kind = "tools/call" /\ r.pc = "done" /\ r.err = "none"

\* C11: a tool call that succeeds returns one content item of type text, whose
\* text is the upstream response pretty-printed, member for member.
C11_ResultEnvelope ==
  \A c \in DOMAIN call :
    LET r == call[c] IN
    Succeeded(r) =>
      /\ Len(r.content) = 1
      /\ r.content[1].type = "text"
      /\ IsPretty(r.content[1].text)
      /\ ParsePretty(r.content[1].text) = r.data
      /\ r.code = "none" /\ r.msg = << >>
\* get_incident with incident_id 42 answered with what /incidents/42 returned.
C11_Witness ==
  \E c \in DOMAIN call :
    /\ Succeeded(call[c]) /\ call[c].name = "get_incident"
    /\ call[c].args.incident_id = Some(42)
    /\ call[c].endpoint = <<"/incidents", 42>>
    /\ call[c].data = << <<"id", 42>>, <<"status", "active">> >>
    /\ ParsePretty(call[c].content[1].text) = call[c].data


Count(seq, x) == Cardinality({ k \in 1..Len(seq) : seq[k] = x })
\* Whether initialize() returned and the switch found nothing to reject.
Passed(r) ==
  Has(r.trace, "init") /\ r.err \notin {"MissingParameter", "UnknownTool", "TypeError"}

\* C12: a tool call sends at most one GET: exactly one once it has passed
\* initialize() and the switch's checks and left the gate, none if it has not
\* passed them; a call that failed upstream sent one GET and is over.
C12_AtMostOneGet ==
  \A c \in ToolCalls :
    LET r == call[c]
        n == Count(r.trace, "get")
    IN
    /\ n <= 1
    /\ Passed(r) /\ r.pc \in {"get", "done"} => n = 1
    /\ ~Passed(r) => n = 0 /\ Count(r.trace, "admit") = 0
    /\ r.err = "UpstreamError" => n = 1 /\ r.pc = "done" /\ r.content = << >>
\* A call whose only GET failed.
C12_Witness ==
  \E c \in ToolCalls :
    /\ call[c].err = "UpstreamError" /\ call[c].pc = "done"
    /\ Count(call[c].trace, "get") = 1


\* C13: in HTTP mode a tool call that is sent upstream carries the Basic
\* credentials resolved for its own request: its query parameters, else the
\* environment; a request that resolves to none is not sent.
C13_PerRequestCredentials ==
  \A c \in ToolCalls :
    LET r == call[c]
        cfg == parseConfig(r.query, env)
    IN
    mode = "http" /\ Has(r.trace, "get") =>
      /\ hasCredentials(cfg)
      /\ r.auth = Some(BasicAuth(cfg))


\* C14: a tool call that fails is answered, and its answer carries an error
\* (a code and a message) and no result; an answer with a result carries no
\* error.
C14_ErrorsSurface ==
  \A c \in ToolCalls :
    LET r == call[c] IN
    /\ r.err # "none" \/ Has(r.trace, "error") =>
         /\ r.pc = "done"
         /\ r.err # "none" /\ r.code # "none" /\ r.msg # << >>
         /\ r.content = << >> /\ ~Has(r.trace, "result")
         /\ mode = "http" => r.status \in {200, 400}
    /\ r.content # << >> \/ Has(r.trace, "result") =>
         r.err = "none" /\ r.code = "none" /\ r.msg = << >>
\* A stdio call rejected by initialize(), answered with InvalidRequest.
C14_Witness ==
  \E c \in ToolCalls :
    /\ mode = "stdio" /\ call[c].pc = "done" /\ call[c].err = "AuthRequired"
    /\ call[c].code = "InvalidRequest" /\ call[c].content = << >>


\* C15: a call that has passed initialize() and names a tool outside the
\* catalogue fails with UnknownTool, untouched by the gate and never sent
\* upstream.
C15_UnknownToolRejected ==
  \A c \in ToolCalls :
    LET r == call[c] IN
    Has(r.trace, "init") /\ r.name # "" /\ r.name \notin ToolNames =>
      /\ r.pc = "done" /\ r.err = "UnknownTool"
      /\ ~Touched(r) /\ r.endpoint = << >>
\* health_check called on an initialized server and rejected.
C15_Witness ==
  \E c \in ToolCalls :
    /\ call[c].name = "health_check" /\ Has(call[c].trace, "init")
    /\ call[c].err = "UnknownTool" /\ call[c].msg = <<"Unknown tool: ", "health_check">>


UpstreamFailed(r) == r.kind = "tools/call" /\ r.err = "UpstreamError"

\* C16 as stated: a call whose GET failed fails with UpstreamError carrying the
\* message member of the upstream error body when there is one, and the
\* transport's text otherwise; it sent one GET and returns no result.
C16_UpstreamMessage ==
  \A c \in DOMAIN call :
    LET r == call[c] IN
    UpstreamFailed(r) =>
      /\ r.msg = <<"Huntress API error: ",
                   IF r.fault.body # Undefined THEN r.fault.body[1] ELSE r.fault.message>>
      /\ Count(r.trace, "get") = 1 /\ r.content = << >>
\* C16 as amended: the message member is carried when it is there and not
\* empty; an empty one gives way to the transport's text, as an absent one does.
C16_UpstreamMessageNonEmpty ==
  \A c \in DOMAIN call :
    LET r == call[c] IN
    UpstreamFailed(r) =>
      /\ r.msg = <<"Huntress API error: ",
                   IF r.fault.body \notin {Undefined, Some("")}
                   THEN r.fault.body[1] ELSE r.fault.message>>
      /\ r.pc = "done" /\ Count(r.trace, "get") = 1 /\ r.content = << >>
\* A 401 whose body says Unauthorized, reported with that message.
C16_Witness ==
  \E c \in DOMAIN call :
    /\ UpstreamFailed(call[c]) /\ call[c].fault.body = Some("Unauthorized")
    /\ call[c].msg = <<"Huntress API error: ", "Unauthorized">>


\* The POST /mcp requests that have been answered.
Posts ==
  { c \in DOMAIN call :
      /\ mode = "http" /\ call[c].pc = "done"
      /\ call[c].kind \in {"malformed", "tools/list", "tools/call", "resources/list"} }

\* C17: a POST /mcp is answered with ParseError (code -32700, status 400) if
\* and only if its body is not parseable JSON.
C17_ParseErrorIffMalformed ==
  \A c \in Posts :
    (call[c].code = "-32700" \/ call[c].status = 400) <=> call[c].kind = "malformed"


Waiting == { c \in DOMAIN call : call[c].pc = "wait" }

\* C18: requestCount never passes 60, whether callers come one at a time or
\* wait in the gate together; a caller that waits has not been counted or
\* admitted.
C18_CountAtMostSixty ==
  /\ requestCount \in 0..MaxRequests
  /\ \A c \in Waiting : ~Has(call[c].trace, "admit")
\* Two callers found the count at 60, waited in the gate together and have
\* both been admitted: the count is 1.
C18_Witness ==
  /\ \A c \in Callers : call[c].pc = "get" /\ Waited(call[c])
  /\ Len(admits) = MaxRequests + 2
  /\ requestCount = 1


\* C19: no step moves lastRequestTime backwards, and no step moves it ahead of
\* the clock.
C19_WindowStartAdvances ==
  [][lastRequestTime' >= lastRequestTime /\ lastRequestTime' <= now']_vars
\* The window start was written by the first call, and again, later, by a
\* caller that woke from its wait while another had already woken.
C19_Witness ==
  /\ \A c \in Callers : call[c].pc = "get" /\ Waited(call[c])
  /\ lastRequestTime = ClockStart + Window
  /\ admits[1] = ClockStart


\* The admissions made in the window that began at lastRequestTime.
AdmittedInWindow ==
  { k \in 1..Len(admits) :
      admits[k] >= lastRequestTime /\ admits[k] - lastRequestTime < Window }

C21_AuthRequiredRecoverable ==
  /\ [](\A c \in ToolCalls :
          /\ call[c].hadCreds =>
               /\ Has(call[c].trace, "init") /\ Has(call[c].trace, "get")
               /\ call[c].err = "none"
          /\ call[c].err = "AuthRequired" => ~call[c].wasInit /\ ~call[c].hadCreds)
  /\ [][\A c \in Callers :
          call'[c] # call[c] /\ call'[c].err = "AuthRequired" =>
            ~isInitialized' /\ axiosInstance' = Undefined]_vars
\* One call failed with AuthRequired; the next, with both fields supplied,
\* found the server uninitialized and was sent upstream.
C21_Witness ==
  /\ call["c1"].kind = "tools/call" /\ call["c1"].err = "AuthRequired"
  /\ call["c2"].kind = "tools/call" /\ call["c2"].hadCreds /\ ~call["c2"].wasInit
  /\ Has(call["c2"].trace, "get")


\* C22: the status list_incidents sends upstream is active, resolved or
\* ignored, and a call that gives no status sends none.
C22_StatusForwarded ==
  \A c \in ToolCalls :
    LET r == call[c] IN
    r.name = "list_incidents" /\ r.endpoint # << >> =>
      /\ r.params.status # Undefined =>
           r.params.status[1] \in {"active", "resolved", "ignored"}
      /\ r.args.status = Undefined => r.params.status = Undefined


\* Where an event that happened stands in a call's trace.
Position(tr, x) == CHOOSE k \in 1..Len(tr) : tr[k] = x
Before(tr, x, y) == Has(tr, x) /\ Position(tr, x) < Position(tr, y)

\* C23: in every tool call the credentials are resolved before the gate is
\* entered, the gate admits before the GET is sent, the GET is sent before the
\* result is returned, and a call that returned a result went through each of
\* these steps once.
C23_StepOrder ==
  \A c \in ToolCalls :
    LET tr == call[c].trace IN
    /\ Has(tr, "wait") => Before(tr, "init", "wait")
    /\ Has(tr, "admit") => Before(tr, "init", "admit")
    /\ Has(tr, "wait") /\ Has(tr, "admit") => Before(tr, "wait", "admit")
    /\ Has(tr, "get") => Before(tr, "admit", "get")
    /\ Has(tr, "result") => Before(tr, "get", "result")
    /\ Has(tr, "result") =>
         /\ Count(tr, "init") = 1 /\ Count(tr, "admit") = 1 /\ Count(tr, "get") = 1
         /\ tr[Len(tr)] = "result"
    /\ call[c].pc = "get" => call[c].auth # Undefined
\* A call that was delayed by the gate, then admitted, sent and answered.
C23_Witness ==
  \E c \in ToolCalls :
    call[c].trace = <<"init", "wait", "admit", "get", "result">>


\* C24: a tool call is past initialize() whenever it is held up, is held up
\* only in the gate's wait or at its GET, waits in the gate at most once, ends
\* with a result or an error, and does end: a call that waits or has a GET
\* under way is eventually finished.
C24_CallStateMachine ==
  /\ [](\A c \in ToolCalls :
          LET r == call[c] IN
          /\ r.pc \in {"wait", "get", "done"}
          /\ r.pc \in {"wait", "get"} => Has(r.trace, "init") /\ r.err = "none"
          /\ Count(r.trace, "wait") <= 1
          /\ r.pc = "wait" => r.trace[Len(r.trace)] = "wait"
          /\ r.pc = "done" =>
               \/ r.err = "none" /\ r.trace[Len(r.trace)] = "result"
               \/ r.err # "none" /\ r.trace[Len(r.trace)] = "error")
  /\ \A c \in Callers :
       (call[c].pc \in {"wait", "get"}) ~> (call[c].pc = "done")
\* A call that waited in the gate and came to its end.
C24_Witness ==
  \E c \in ToolCalls :
    /\ call[c].pc = "done" /\ Count(call[c].trace, "wait") = 1
    /\ call[c].err = "UpstreamError"


\* C25: whenever a call is suspended in the gate, the time it waits is
\* 60000 ms less the time the window had run when the call arrived, and it is
\* more than 0 and at most 60000 ms.
C25_WaitWithinWindow ==
  \A c \in ToolCalls :
    call[c].pc = "wait" =>
      LET waitTime == call[c].deadline - call[c].arrived IN
      /\ waitTime = 60000 - (call[c].arrived - lastRequestTime)
      /\ waitTime > 0
      /\ waitTime <= 60000
\* A call suspended one millisecond before its window is over.
C25_Witness ==
  \E c \in ToolCalls :
    /\ call[c].pc = "wait"
    /\ call[c].arrived - lastRequestTime = 59999
    /\ call[c].deadline - call[c].arrived = 1


\* The value a credential field resolves to: the query parameter when it is
\* present and not empty, the environment variable otherwise.
Resolved(param, variable) ==
  IF param # Undefined /\ param[1] # "" THEN param ELSE variable

NonEmpty(v) == v # Undefined /\ v[1] # ""

\* C26: when an HTTP request is received, each of key and secret is resolved
\* on its own, from the request's query parameter when that is present and not
\* empty and from the environment variable otherwise; a tool call finds
\* credentials configured exactly when both resolved values are not empty.
C26_FieldByField ==
  /\ [][\A c \in Callers :
          call[c].pc \in {"idle", "done"} /\ call'[c].pc = "body" =>
            /\ config'.huntressApiKey =
                 Resolved(call'[c].query.huntressApiKey, env.HUNTRESS_API_KEY)
            /\ config'.huntressApiSecret =
                 Resolved(call'[c].query.huntressApiSecret, env.HUNTRESS_API_SECRET)]_vars
  /\ [][\A c \in Callers :
          call[c].pc = "body" /\ call'[c].pc # "body" /\ call'[c].kind = "tools/call" =>
            call'[c].hadCreds =
              (NonEmpty(config.huntressApiKey) /\ NonEmpty(config.huntressApiSecret))]_vars
\* A call whose key came from the environment and whose secret came from its
\* URL, found configured.
C26_Witness ==
  \E c \in ToolCalls :
    /\ call[c].query = [huntressApiKey |-> Undefined, huntressApiSecret |-> Some("s1")]
    /\ config = [huntressApiKey |-> Some("ek"), huntressApiSecret |-> Some("s1")]
    /\ call[c].hadCreds
    /\ call[c].auth = Some(<<"Basic", "ek", ":", "s1">>)


\* C27: an HTTP tool call that finds the server not yet initialized passes
\* the credential check exactly when the credentials resolved from its own
\* URL are complete, and is initialized with that key and secret, whatever
\* other requests arrived before its body ended.
C27_OwnCredentials ==
  \A c \in ToolCalls :
    mode = "http" /\ ~call[c].wasInit =>
      LET own == parseConfig(call[c].query, env) IN
      /\ Has(call[c].trace, "init") <=> hasCredentials(own)
      /\ call[c].auth # Undefined => call[c].auth = Some(BasicAuth(own))


Rejections == {"AuthRequired", "MissingParameter", "UnknownTool"}

\* C28: a step that rejects a tool call for missing credentials, a missing
\* identifier or an unknown tool name leaves requestCount and the window start
\* as they were, and the two change only in a step in which a call reaches
\* makeRequest and is admitted.
C28_RejectedCallsTakeNoSlot ==
  /\ [][\A c \in Callers :
          call'[c] # call[c] /\ call'[c].pc = "done" /\ call'[c].err \in Rejections =>
            /\ requestCount' = requestCount
            /\ lastRequestTime' = lastRequestTime
            /\ admits' = admits]_vars
  /\ [][requestCount' # requestCount \/ lastRequestTime' # lastRequestTime =>
          \E c \in Callers :
            /\ call[c].pc # "get" /\ call'[c].pc = "get"
            /\ call'[c].endpoint # << >>
            /\ admits' = Append(admits, now)]_vars
\* A call rejected for its missing identifier after an earlier call took the
\* window's first slot.
C28_Witness ==
  \E c \in ToolCalls :
    /\ call[c].err = "MissingParameter"
    /\ call[c].wasInit
    /\ requestCount = 1 /\ lastRequestTime = ClockStart /\ Len(admits) = 1


\* C29: the query a list_organizations, list_agents or list_incidents call
\* sends upstream has a limit from 1 to 500 and a page of at least 1, whatever
\* integers the caller gave.
C29_PagingWithinSchema ==
  \A c \in ToolCalls :
    call[c].name \in ListTools /\ call[c].endpoint # << >> =>
      /\ call[c].params.limit[1] >= 1
      /\ call[c].params.limit[1] <= 500
      /\ call[c].params.page[1] >= 1


====
